---- MODULE Spec2Model ----
(***************************************************************************)
(* pwgen-rs (src/src/main.rs): password generation engine.                 *)
(*                                                                         *)
(* Bytes are modelled as their ASCII codes, strings and Vec<u8> as         *)
(* sequences of codes.  Rust indices are 0-based, sequence indices here    *)
(* are 1-based: element idx of a slice s is s[idx + 1].                    *)
(***************************************************************************)
EXTENDS Integers, Sequences, FiniteSets, TLC

\* ------------------------------------------------------------------ bounds
\* largest pw_length drawn by Init
MaxLen == 3
\* largest num_pw drawn by InitBatch
MaxCount == 2
\* largest number of passwords handed to print_passwords by InitPrint
MaxPrint == 12
\* values the entropy source delivers for one read_exact of one byte
ByteVals == {0, 19, 20, 255}

\* --------------------------------------------------------- program constants
COLUMNS == 5
\* `attempts > 100` in the rejection loop
RetryCeiling == 100

\* b"abcdefghijklmnopqrstuvwxyz"
LOWERCASE == [k \in 1..26 |-> 96 + k]
\* b"ABCDEFGHIJKLMNOPQRSTUVWXYZ"
UPPERCASE == [k \in 1..26 |-> 64 + k]
\* b"0123456789"
NUMERALS == [k \in 1..10 |-> 47 + k]
\* b"!\"#$%&'()*+,-./:;<=>?@[\\]^_`{|}~"
SYMBOLS ==
  <<33, 34, 35, 36, 37, 38, 39, 40, 41, 42, 43, 44, 45, 46, 47,
    58, 59, 60, 61, 62, 63, 64, 91, 92, 93, 94, 95, 96, 123, 124, 125, 126>>
\* b"aeiouyAEIOUY"
VOWELS == <<97, 101, 105, 111, 117, 121, 65, 69, 73, 79, 85, 89>>
\* b"B8G6I1l0OQDS5Z2"
AMBIGUOUS == <<66, 56, 71, 54, 73, 49, 108, 48, 79, 81, 68, 83, 53, 90, 50>>
\* b"bcdfghjklmnpqrstvwxz"
CONSONANTS_LOWER ==
  <<98, 99, 100, 102, 103, 104, 106, 107, 108, 109,
    110, 112, 113, 114, 115, 116, 118, 119, 120, 122>>
\* b"bcdfghjklmnpqrstvwxzBCDFGHJKLMNPQRSTVWXZ"
CONSONANTS ==
  CONSONANTS_LOWER \o
  <<66, 67, 68, 70, 71, 72, 74, 75, 76, 77,
    78, 80, 81, 82, 83, 84, 86, 87, 88, 90>>
\* b"aeiouy"
VOWELS_LOWER == <<97, 101, 105, 111, 117, 121>>

\* ------------------------------------------------------------------ helpers
\* slice.contains(&c)
contains(s, c) == \E k \in 1..Len(s) : s[k] = c
\* u8::is_ascii_uppercase
is_ascii_uppercase(c) == c \in 65..90
\* u8::is_ascii_digit
is_ascii_digit(c) == c \in 48..57
\* byte as usize % len, as a 1-based index
index_of(b, len) == (b % len) + 1
\* Vec::retain(|&c| !excl.contains(&c))
retain_not_in(charset, excl) == SelectSeq(charset, LAMBDA c : ~contains(excl, c))
\* "a".repeat(length)
repeat_a(length) == [k \in 1..length |-> 97]

\* Option<Vec<u8>>
None == [some |-> FALSE, chars |-> <<>>]
Some(chars) == [some |-> TRUE, chars |-> chars]

\* ------------------------------------------------------------ build_charset
\* charset.extend_from_slice(...) for the enabled classes
assemble_classes(config) ==
  LOWERCASE
  \o (IF config.capitalize /\ ~config.no_capitalize THEN UPPERCASE ELSE <<>>)
  \o (IF config.numerals /\ ~config.no_numerals THEN NUMERALS ELSE <<>>)
  \o (IF config.symbols THEN SYMBOLS ELSE <<>>)

filter_ambiguous(config, charset) ==
  IF config.ambiguous THEN retain_not_in(charset, AMBIGUOUS) ELSE charset

\* only the lowercase vowels removed
filter_vowels_lower_only(config, charset) ==
  IF config.no_vowels THEN retain_not_in(charset, VOWELS_LOWER) ELSE charset

filter_vowels(config, charset) ==
  IF config.no_vowels THEN retain_not_in(charset, VOWELS) ELSE charset

\* the user's exclusions not applied
filter_removed_skipped(config, charset) == charset

filter_removed(config, charset) ==
  IF config.remove_chars.some
  THEN retain_not_in(charset, config.remove_chars.chars)
  ELSE charset

build_charset(config) ==
  filter_removed(config,
    filter_vowels(config,
      filter_ambiguous(config, assemble_classes(config))))

\* ------------------------------------------------------- apply_requirements
\* the closure without its remove_chars test
class_filter_ambiguous_only(config, class) ==
  SelectSeq(class, LAMBDA c : ~(config.ambiguous /\ contains(AMBIGUOUS, c)))

\* the closure of the uppercase and digit filters
class_filter(config, class) ==
  SelectSeq(class, LAMBDA c :
    /\ ~(config.ambiguous /\ contains(AMBIGUOUS, c))
    /\ ~(config.remove_chars.some /\ contains(config.remove_chars.chars, c)))

uppercase_filtered(config) == class_filter(config, UPPERCASE)

numerals_filtered(config) == class_filter(config, NUMERALS)

symbols_filtered(config) ==
  SelectSeq(SYMBOLS, LAMBDA c :
    ~(config.remove_chars.some /\ contains(config.remove_chars.chars, c)))

\* result.insert(pos, ch) in place of the assignment
overwrite_inserting(result, pos, ch) ==
  SubSeq(result, 1, pos) \o <<ch>> \o SubSeq(result, pos + 1, Len(result))

\* result[pos] = ch, pos 0-based
overwrite(result, pos, ch) == [result EXCEPT ![pos + 1] = ch]

has_uppercase(result) == \E k \in 1..Len(result) : is_ascii_uppercase(result[k])
has_numeral(result) == \E k \in 1..Len(result) : is_ascii_digit(result[k])
has_symbol(result) == \E k \in 1..Len(result) : contains(SYMBOLS, result[k])

\* -------------------------------------------------- generate_memorable_password
\* the case-inclusive consonants whatever no_capitalize says
consonants_any_case(config) == CONSONANTS

consonants_of(config) == IF config.no_capitalize THEN CONSONANTS_LOWER ELSE CONSONANTS
vowels_of(config) == IF config.no_capitalize THEN VOWELS_LOWER ELSE VOWELS
\* vowels at even positions, consonants at odd ones
char_set_swapped(config, i) ==
  IF i % 2 = 0 THEN vowels_of(config) ELSE consonants_of(config)

\* i is the 0-based position
char_set(config, i) == IF i % 2 = 0 THEN consonants_of(config) ELSE vowels_of(config)

rejected_removed(config, candidate) ==
  config.remove_chars.some /\ contains(config.remove_chars.chars, candidate)
\* the flag tested with the wrong sense
rejected_ambiguous_inverted(config, candidate) ==
  ~config.ambiguous /\ contains(AMBIGUOUS, candidate)

rejected_ambiguous(config, candidate) ==
  config.ambiguous /\ contains(AMBIGUOUS, candidate)


\* ------------------------------------------------------------ print_passwords
\* (passwords.len() + COLUMNS - 1) / COLUMNS
rows_of(n) == (n + COLUMNS - 1) \div COLUMNS

\* for (i, password) in passwords.iter().enumerate() { row_buffers[i % rows].push(password) }
\* i is the 0-based index of the next password to push
RECURSIVE push_rows(_, _, _, _)
push_rows(pws, rows, i, bufs) ==
  IF i >= Len(pws) THEN bufs
  ELSE push_rows(pws, rows, i + 1,
         [bufs EXCEPT ![(i % rows) + 1] = Append(@, pws[i + 1])])

row_buffers(pws) ==
  push_rows(pws, rows_of(Len(pws)), 0, [r \in 1..rows_of(Len(pws)) |-> <<>>])

\* max_widths[col]: the longest item any row holds in column col, 0 if none
max_of(S) ==
  IF S = {} THEN 0
  ELSE LET x == CHOOSE y \in S : \A z \in S : y >= z IN x

max_widths(bufs) ==
  [col \in 1..COLUMNS |->
     max_of({Len(bufs[r][col]) : r \in {q \in 1..Len(bufs) : Len(bufs[q]) >= col}})]

\* format!("{:>width$}", item): pad on the left
pad_right_justified(item, width) ==
  IF Len(item) >= width THEN item
  ELSE [k \in 1..(width - Len(item)) |-> 32] \o item

\* format!("{:<width$}", item): pad with spaces on the right up to width
pad_left_justified(item, width) ==
  IF Len(item) >= width THEN item
  ELSE item \o [k \in 1..(width - Len(item)) |-> 32]

\* one printed row: items separated by a single space, each padded
RECURSIVE print_row(_, _, _)
print_row(row, widths, col) ==
  IF col > Len(row) THEN <<>>
  ELSE (IF col > 1 THEN <<32>> ELSE <<>>)
       \o pad_left_justified(row[col], widths[col])
       \o print_row(row, widths, col + 1)

\* the lines written to standard output
print_passwords(pws, columns) ==
  IF ~columns \/ Len(pws) <= COLUMNS
  THEN pws
  ELSE LET bufs == row_buffers(pws)
           widths == max_widths(bufs)
       IN [r \in 1..Len(bufs) |-> print_row(bufs[r], widths, 1)]

\* ---------------------------------------------------------------------- state
VARIABLES
  config,      \* Config, read-only after parse_args
  pc,          \* control position of main and its callees
  passwords,   \* Vec<String> collected by generate_passwords
  charset,     \* the alphabet generate_secure_password got from build_charset
  password,    \* the password (result) of the running generator / enforcer
  attempts,    \* rejection counter of the current position
  pick,        \* upper_char / numeral / symbol drawn by apply_requirements
  rng_err,     \* TRUE once the entropy source has returned an I/O error
  stdout,      \* lines printed by print_passwords
  helped,      \* TRUE once print_help has run
  forced,      \* history: 0-based positions of password filled by the retry-ceiling fallback
  forcedLog    \* history: `forced` of every password in passwords

vars == <<config, pc, passwords, charset, password, attempts, pick, rng_err, stdout,
          helped, forced, forcedLog>>

\* values of remove_chars drawn by Init
\* "aeiouAEIOU"
RemoveVowels == <<97, 101, 105, 111, 117, 65, 69, 73, 79, 85>>
RemoveOptions ==
  { None,
    Some(RemoveVowels),
    Some(CONSONANTS_LOWER),
    Some(UPPERCASE \o NUMERALS) }

\* Config as parse_args_from_vec can build it: capitalize and numerals are only ever set to true
Configs(lengths, counts, columnsSet) ==
  [ pw_length : lengths,
    num_pw : counts,
    capitalize : {TRUE},
    no_capitalize : BOOLEAN,
    numerals : {TRUE},
    no_numerals : BOOLEAN,
    symbols : BOOLEAN,
    remove_chars : RemoveOptions,
    secure : BOOLEAN,
    ambiguous : BOOLEAN,
    columns : columnsSet,
    no_vowels : BOOLEAN,
    help : BOOLEAN ]

InitLocals ==
  /\ pc = "main"
  /\ passwords = <<>>
  /\ charset = <<>>
  /\ password = <<>>
  /\ attempts = 0
  /\ pick = 0
  /\ rng_err = FALSE
  /\ stdout = <<>>
  /\ helped = FALSE
  /\ forced = {}
  /\ forcedLog = <<>>

\* one password per run, every combination of the option flags
Init ==
  /\ config \in Configs(1..MaxLen, {1}, {TRUE})
  /\ InitLocals

\* generate_secure_password called on its own, for every configuration
InitCharset ==
  /\ config \in Configs(1..MaxLen, {1}, BOOLEAN)
  /\ pc = "secure_entry"
  /\ passwords = <<>>
  /\ charset = <<>>
  /\ password = <<>>
  /\ attempts = 0
  /\ pick = 0
  /\ rng_err = FALSE
  /\ stdout = <<>>
  /\ helped = FALSE
  /\ forced = {}
  /\ forcedLog = <<>>

\* batches of 0..MaxCount one-character passwords, ambiguous characters
\* excluded so that the rejection loop runs
InitBatch ==
  /\ config \in {c \in Configs({1}, 0..MaxCount, BOOLEAN) :
                    ~c.remove_chars.some /\ ~c.no_numerals /\ c.ambiguous}
  /\ InitLocals

\* print_passwords called on its own, as the unit test does: any list of
\* 0..MaxPrint strings, of different lengths
PrintItems == {<<97>>, <<98, 99>>}
RECURSIVE SeqsUpTo(_, _)
SeqsUpTo(S, n) ==
  IF n = 0 THEN {<<>>}
  ELSE LET shorter == SeqsUpTo(S, n - 1)
       IN shorter \cup {Append(q, x) : q \in {y \in shorter : Len(y) = n - 1}, x \in S}

InitPrint ==
  /\ \E pws \in SeqsUpTo(PrintItems, MaxPrint), col \in BOOLEAN :
       /\ passwords = pws
       /\ forcedLog = [k \in 1..Len(pws) |-> {}]
       /\ config = [ pw_length |-> 2, num_pw |-> Len(pws), capitalize |-> TRUE,
                     no_capitalize |-> FALSE, numerals |-> TRUE, no_numerals |-> FALSE,
                     symbols |-> FALSE, remove_chars |-> None, secure |-> FALSE,
                     ambiguous |-> FALSE, columns |-> col, no_vowels |-> FALSE,
                     help |-> FALSE ]
  /\ pc = "loop"
  /\ charset = <<>>
  /\ password = <<>>
  /\ attempts = 0
  /\ pick = 0
  /\ rng_err = FALSE
  /\ stdout = <<>>
  /\ helped = FALSE
  /\ forced = {}

\* ----------------------------------------------------------------------- main
\* if config.help { print_help(); return Ok(()) }
Help ==
  /\ pc = "main"
  /\ config.help
  /\ helped' = TRUE
  /\ pc' = "done"
  /\ UNCHANGED <<config, charset, passwords, password, attempts, pick, rng_err, stdout,
                 forced, forcedLog>>

\* generate_passwords: File::open("/dev/urandom") succeeded
OpenRng ==
  /\ pc = "main"
  /\ ~config.help
  /\ pc' = "loop"
  /\ UNCHANGED <<config, charset, passwords, password, attempts, pick, rng_err, stdout,
                 helped, forced, forcedLog>>

\* the `?` of File::open and of every rng.read_exact: the error is returned
\* through generate_passwords to main, which returns it without printing.
\* The locals of the running generator are gone; the dropped passwords
\* vector keeps its last value here, it is never read again.
Abort ==
  /\ pc' = "failed"
  /\ password' = <<>>
  /\ attempts' = 0
  /\ pick' = 0
  /\ forced' = {}
  /\ UNCHANGED <<config, charset, passwords, stdout, helped, forcedLog>>

OpenFail ==
  /\ pc = "main"
  /\ ~config.help
  /\ rng_err' = TRUE
  /\ Abort

ReadingPcs ==
  {"secure_loop", "mem_loop", "upper_idx", "upper_pos", "digit_idx", "digit_pos",
   "symbol_idx", "symbol_pos"}

\* the failed password is started again instead of returning the error
ReadFailRetries ==
  /\ pc \in ReadingPcs
  /\ rng_err' = TRUE
  /\ pc' = "loop"
  /\ password' = <<>>
  /\ attempts' = 0
  /\ pick' = 0
  /\ forced' = {}
  /\ UNCHANGED <<config, charset, passwords, stdout, helped, forcedLog>>

ReadFail ==
  /\ pc \in ReadingPcs
  /\ rng_err' = TRUE
  /\ Abort

\* ------------------------------------------------------------ generate_passwords
\* for _ in 0..config.num_pw: pick the generator
GenerateNext ==
  /\ pc = "loop"
  /\ Len(passwords) < config.num_pw
  /\ pc' = IF config.secure THEN "secure_entry" ELSE "memorable_entry"
  /\ password' = <<>>
  /\ attempts' = 0
  /\ forced' = {}
  /\ UNCHANGED <<config, charset, passwords, pick, rng_err, stdout, helped, forcedLog>>

\* passwords.push(password) with the value a generator returned
ReturnPassword(pw) ==
  /\ passwords' = Append(passwords, pw)
  /\ forcedLog' = Append(forcedLog, forced)
  /\ pc' = "loop"
  /\ password' = <<>>
  /\ attempts' = 0
  /\ pick' = 0
  /\ forced' = {}

\* Ok(passwords) reaches main: print_passwords(&passwords, config.columns)
PrintPasswords ==
  /\ pc = "loop"
  /\ Len(passwords) >= config.num_pw
  /\ stdout' = print_passwords(passwords, config.columns)
  /\ pc' = "done"
  /\ UNCHANGED <<config, charset, passwords, password, attempts, pick, rng_err, helped,
                 forced, forcedLog>>

\* ------------------------------------------------------ generate_secure_password
\* let charset = build_charset(config); if charset.is_empty() { return "a".repeat(length) }
SecureEntry ==
  /\ pc = "secure_entry"
  /\ charset' = build_charset(config)
  /\ IF charset' = <<>>
     THEN ReturnPassword(repeat_a(config.pw_length))
     ELSE /\ pc' = "secure_loop"
          /\ password' = <<>>
          /\ UNCHANGED <<passwords, attempts, pick, forced, forcedLog>>
  /\ UNCHANGED <<config, rng_err, stdout, helped>>

\* one iteration of `for _ in 0..length`: read a byte, push charset[idx]
SecureRead ==
  /\ pc = "secure_loop"
  /\ \E b \in ByteVals :
       LET pw == Append(password, charset[index_of(b, Len(charset))])
       IN IF Len(pw) >= config.pw_length
          THEN ReturnPassword(pw)
          ELSE /\ password' = pw
               /\ UNCHANGED <<pc, passwords, attempts, pick, forced, forcedLog>>
  /\ UNCHANGED <<config, charset, rng_err, stdout, helped>>

\* --------------------------------------------------- generate_memorable_password
\* if config.no_vowels { return generate_secure_password(length, config, rng) }
MemorableEntry ==
  /\ pc = "memorable_entry"
  /\ pc' = IF config.no_vowels THEN "secure_entry" ELSE "mem_loop"
  /\ password' = <<>>
  /\ attempts' = 0
  /\ UNCHANGED <<config, charset, passwords, pick, rng_err, stdout, helped, forced, forcedLog>>

\* the password is filled: hand it to apply_requirements
AfterPush(pw) ==
  /\ password' = pw
  /\ attempts' = 0
  /\ pc' = IF Len(pw) >= config.pw_length THEN "req_upper" ELSE "mem_loop"

\* the ceiling tested before the increment: one more rejected draw goes round
MemReadLateCeiling ==
  /\ pc = "mem_loop"
  /\ \E b \in ByteVals :
       LET i == Len(password)
           cs == char_set(config, i)
           candidate == cs[index_of(b, Len(cs))]
       IN IF rejected_removed(config, candidate) \/ rejected_ambiguous(config, candidate)
          THEN IF attempts > RetryCeiling
               THEN /\ AfterPush(Append(password, candidate))
                    /\ forced' = forced \cup {i}
               ELSE /\ attempts' = attempts + 1
                    /\ UNCHANGED <<pc, password, forced>>
          ELSE /\ AfterPush(Append(password, candidate))
               /\ UNCHANGED forced
  /\ UNCHANGED <<config, charset, passwords, pick, rng_err, stdout, helped, forcedLog>>

\* one iteration of the rejection loop of position i = password.len()
MemRead ==
  /\ pc = "mem_loop"
  /\ \E b \in ByteVals :
       LET i == Len(password)
           cs == char_set(config, i)
           candidate == cs[index_of(b, Len(cs))]
       IN IF rejected_removed(config, candidate) \/ rejected_ambiguous(config, candidate)
          THEN IF attempts + 1 > RetryCeiling
               THEN /\ AfterPush(Append(password, candidate))
                    /\ forced' = forced \cup {i}
               ELSE /\ attempts' = attempts + 1
                    /\ UNCHANGED <<pc, password, forced>>
          ELSE /\ AfterPush(Append(password, candidate))
               /\ UNCHANGED forced
  /\ UNCHANGED <<config, charset, passwords, pick, rng_err, stdout, helped, forcedLog>>

\* ------------------------------------------------------------ apply_requirements
\* if config.capitalize && !config.no_capitalize && !result.iter().any(is_ascii_uppercase)
\* and the filtered class is not empty: go on to the two reads
ReqUpper ==
  /\ pc = "req_upper"
  /\ pc' = IF /\ config.capitalize
              /\ ~config.no_capitalize
              /\ ~has_uppercase(password)
              /\ uppercase_filtered(config) # <<>>
           THEN "upper_idx" ELSE "req_digit"
  /\ UNCHANGED <<config, charset, passwords, password, attempts, pick, rng_err, stdout,
                 helped, forced, forcedLog>>

\* upper_char = uppercase_filtered[buf[0] % len]
UpperIdx ==
  /\ pc = "upper_idx"
  /\ \E b \in ByteVals :
       LET cls == uppercase_filtered(config)
       IN pick' = cls[index_of(b, Len(cls))]
  /\ pc' = "upper_pos"
  /\ UNCHANGED <<config, charset, passwords, password, attempts, rng_err, stdout, helped,
                 forced, forcedLog>>

\* result[buf[0] % result.len()] = upper_char
UpperPos ==
  /\ pc = "upper_pos"
  /\ \E b \in ByteVals :
       password' = overwrite(password, b % Len(password), pick)
  /\ pick' = 0
  /\ pc' = "req_digit"
  /\ UNCHANGED <<config, charset, passwords, attempts, rng_err, stdout, helped, forced,
                 forcedLog>>

\* if config.numerals && !config.no_numerals, no digit yet, filtered class not empty
ReqDigit ==
  /\ pc = "req_digit"
  /\ pc' = IF /\ config.numerals
              /\ ~config.no_numerals
              /\ ~has_numeral(password)
              /\ numerals_filtered(config) # <<>>
           THEN "digit_idx" ELSE "req_symbol"
  /\ UNCHANGED <<config, charset, passwords, password, attempts, pick, rng_err, stdout,
                 helped, forced, forcedLog>>

\* numeral = numerals_filtered[buf[0] % len]
DigitIdx ==
  /\ pc = "digit_idx"
  /\ \E b \in ByteVals :
       LET cls == numerals_filtered(config)
       IN pick' = cls[index_of(b, Len(cls))]
  /\ pc' = "digit_pos"
  /\ UNCHANGED <<config, charset, passwords, password, attempts, rng_err, stdout, helped,
                 forced, forcedLog>>

\* result[buf[0] % result.len()] = numeral
DigitPos ==
  /\ pc = "digit_pos"
  /\ \E b \in ByteVals :
       password' = overwrite(password, b % Len(password), pick)
  /\ pick' = 0
  /\ pc' = "req_symbol"
  /\ UNCHANGED <<config, charset, passwords, attempts, rng_err, stdout, helped, forced,
                 forcedLog>>

\* if config.symbols, no symbol yet, filtered class not empty
ReqSymbol ==
  /\ pc = "req_symbol"
  /\ pc' = IF /\ config.symbols
              /\ ~has_symbol(password)
              /\ symbols_filtered(config) # <<>>
           THEN "symbol_idx" ELSE "req_return"
  /\ UNCHANGED <<config, charset, passwords, password, attempts, pick, rng_err, stdout,
                 helped, forced, forcedLog>>

\* symbol = symbols_filtered[buf[0] % len]
SymbolIdx ==
  /\ pc = "symbol_idx"
  /\ \E b \in ByteVals :
       LET cls == symbols_filtered(config)
       IN pick' = cls[index_of(b, Len(cls))]
  /\ pc' = "symbol_pos"
  /\ UNCHANGED <<config, charset, passwords, password, attempts, rng_err, stdout, helped,
                 forced, forcedLog>>

\* result[buf[0] % result.len()] = symbol
SymbolPos ==
  /\ pc = "symbol_pos"
  /\ \E b \in ByteVals :
       password' = overwrite(password, b % Len(password), pick)
  /\ pick' = 0
  /\ pc' = "req_return"
  /\ UNCHANGED <<config, charset, passwords, attempts, rng_err, stdout, helped, forced,
                 forcedLog>>

\* Ok(String::from_utf8(result).unwrap()), returned through generate_memorable_password
ApplyReturn ==
  /\ pc = "req_return"
  /\ ReturnPassword(password)
  /\ UNCHANGED <<config, charset, rng_err, stdout, helped>>

\* ------------------------------------------------------------- specifications
Next ==
  \/ Help
  \/ OpenRng
  \/ OpenFail
  \/ ReadFail
  \/ GenerateNext
  \/ PrintPasswords
  \/ SecureEntry
  \/ SecureRead
  \/ MemorableEntry
  \/ MemRead
  \/ ReqUpper
  \/ UpperIdx
  \/ UpperPos
  \/ ReqDigit
  \/ DigitIdx
  \/ DigitPos
  \/ ReqSymbol
  \/ SymbolIdx
  \/ SymbolPos
  \/ ApplyReturn

Spec == Init /\ [][Next]_vars

SpecBatch == InitBatch /\ [][Next]_vars

NextCharset == SecureEntry

SpecCharset == InitCharset /\ [][NextCharset]_vars

NextPrint == PrintPasswords

SpecPrint == InitPrint /\ [][NextPrint]_vars


\* ==================================================================== claims
\* the password under construction together with the finished ones, each with
\* the positions its generator filled at the retry ceiling
Produced ==
  {<<password, forced>>} \cup {<<passwords[k], forcedLog[k]>> : k \in 1..Len(passwords)}

PatternPath == ~config.secure /\ ~config.no_vowels

\* ------------------------------------------------------------------------ C1
\* classes apply_requirements has to provide: requirement active, not
\* forbidden, filtered class alphabet not empty
upper_required == config.capitalize /\ ~config.no_capitalize /\ uppercase_filtered(config) # <<>>
digit_required == config.numerals /\ ~config.no_numerals /\ numerals_filtered(config) # <<>>
symbol_required == config.symbols /\ symbols_filtered(config) # <<>>
required_classes ==
  (IF upper_required THEN 1 ELSE 0) + (IF digit_required THEN 1 ELSE 0)
  + (IF symbol_required THEN 1 ELSE 0)

\* C1 (as claimed): the password apply_requirements returns contains a
\* character of every class whose requirement is active, not forbidden and
\* whose filtered class alphabet is not empty (stated for the passwords long
\* enough to hold one character of each such class).
C1_EnforcedHasEveryClass ==
  (pc = "req_return" /\ Len(password) >= required_classes) =>
    /\ upper_required => has_uppercase(password)
    /\ digit_required => has_numeral(password)
    /\ symbol_required => has_symbol(password)

\* ------------------------------------------------------------------------ C2
\* C2: every password a generator returns (uniform, pattern with the retry
\* ceiling, the no_vowels degradation, the empty-alphabet fallback, after
\* enforcement) has exactly pw_length characters.
C2_LengthIsRequested ==
  /\ \A k \in 1..Len(passwords) : Len(passwords[k]) = config.pw_length
  /\ pc \in {"req_upper", "upper_idx", "upper_pos", "req_digit", "digit_idx",
             "digit_pos", "req_symbol", "symbol_idx", "symbol_pos", "req_return"}
       => Len(password) = config.pw_length

\* a pattern password that hit the retry ceiling and went through enforcement was returned
C2_Witness ==
  /\ pc = "done"
  /\ PatternPath
  /\ config.pw_length = MaxLen
  /\ Len(passwords) = 1
  /\ forcedLog[1] # {}
  /\ stdout = passwords

\* ------------------------------------------------------------------------ C3
\* C3: with no_capitalize set no password, under construction, returned or
\* printed, contains an uppercase letter.
C3_NoUppercaseWhenForbidden ==
  config.no_capitalize =>
    /\ ~has_uppercase(password)
    /\ \A k \in 1..Len(passwords) : ~has_uppercase(passwords[k])
    /\ \A k \in 1..Len(stdout) : ~has_uppercase(stdout[k])

\* pattern mode, capitalize and no_capitalize both set, symbols required
C3_Witness ==
  /\ pc = "done"
  /\ config.no_capitalize /\ config.capitalize /\ config.symbols
  /\ PatternPath
  /\ Len(passwords) = 1
  /\ has_symbol(passwords[1])

C5_NoVowelInUniform ==
  (config.secure /\ config.remove_chars = Some(RemoveVowels)) =>
    \A k \in 1..Len(passwords) : \A j \in 1..Len(passwords[k]) :
      ~contains(VOWELS, passwords[k][j])

\* C5 (amended): in secure mode with remove_chars = "aeiouAEIOU" no
\* character of a password is one of a e i o u A E I O U.
C5_NoRemovedVowelInUniform ==
  (config.secure /\ config.remove_chars = Some(RemoveVowels)) =>
    \A pf \in Produced : \A j \in 1..Len(pf[1]) :
      ~contains(RemoveVowels, pf[1][j])

\* such a password was returned, and it holds a y
C5_Witness ==
  /\ config.secure
  /\ config.remove_chars = Some(RemoveVowels)
  /\ pc = "done"
  /\ Len(passwords) = 1
  /\ contains(passwords[1], 121)

\* ------------------------------------------------------------------------ C6
\* C6 (as claimed): with no_vowels set, the password
\* generate_memorable_password returns contains no character of VOWELS.
C6_NoVowelWhenExcluded ==
  (config.no_vowels /\ ~config.secure) =>
    \A k \in 1..Len(passwords) : \A j \in 1..Len(passwords[k]) :
      ~contains(VOWELS, passwords[k][j])

\* ------------------------------------------------------------------------ C7
\* the three retain filters of build_charset applied in the order ord
filters_in_order(c, ord) ==
  LET apply(n, cs) ==
        IF n = 1 THEN filter_ambiguous(c, cs)
        ELSE IF n = 2 THEN filter_vowels(c, cs)
        ELSE filter_removed(c, cs)
  IN apply(ord[3], apply(ord[2], apply(ord[1], assemble_classes(c))))

\* C7: the alphabet generate_secure_password gets from build_charset holds
\* no byte of remove_chars, no ambiguous byte when ambiguous is set and no
\* vowel when no_vowels is set, and the three filters give the same alphabet
\* in every order.
C7_CharsetHonoursExclusions ==
  pc # "secure_entry" =>
    /\ \A k \in 1..Len(charset) :
         /\ config.remove_chars.some => ~contains(config.remove_chars.chars, charset[k])
         /\ config.ambiguous => ~contains(AMBIGUOUS, charset[k])
         /\ config.no_vowels => ~contains(VOWELS, charset[k])
    /\ \A ord \in Permutations({1, 2, 3}) : filters_in_order(config, ord) = charset

\* build_charset returned with all three filters active and all classes enabled
C7_Witness ==
  /\ pc = "secure_loop"
  /\ config.ambiguous /\ config.no_vowels /\ config.remove_chars.some
  /\ config.symbols /\ ~config.no_capitalize /\ ~config.no_numerals
  /\ Len(charset) > 0
  /\ \E k \in 1..Len(charset) : is_ascii_uppercase(charset[k])

\* ------------------------------------------------------------------------ C8
\* C8: the password the pattern generator hands to apply_requirements has a
\* consonant at every even index and a vowel at every odd index (0-based).
C8_ConsonantVowelAlternation ==
  pc = "req_upper" =>
    \A j \in 1..Len(password) :
      IF (j - 1) % 2 = 0
      THEN contains(CONSONANTS, password[j])
      ELSE contains(VOWELS, password[j])

DefaultSettings ==
  /\ ~config.no_capitalize /\ ~config.no_numerals /\ ~config.symbols
  /\ ~config.remove_chars.some /\ ~config.secure /\ ~config.ambiguous
  /\ ~config.no_vowels

\* default settings, the pattern is filled up to a second consonant
C8_Witness ==
  /\ pc = "req_upper"
  /\ DefaultSettings
  /\ Len(password) >= 3

\* ------------------------------------------------------------------------ C9
\* C9: once a read of the entropy source (or its open) has failed, the run
\* is in its failed exit, nothing has been printed and nothing is generated
\* or printed afterwards.
C9_FailureAbortsBatch ==
  rng_err => (pc = "failed" /\ stdout = <<>> /\ password = <<>>)

\* the failure came after a password of the batch had been completed
C9_Witness ==
  /\ rng_err
  /\ pc = "failed"
  /\ config.num_pw >= 2
  /\ Len(passwords) >= 1
  /\ Len(passwords) < config.num_pw

\* ----------------------------------------------------------------------- C10
\* number of entries of a printed line: its maximal runs of non-space bytes
entries_in_line(line) ==
  Cardinality({k \in 1..Len(line) : line[k] # 32 /\ (k = 1 \/ line[k - 1] = 32)})

\* C10 (as claimed): 12 passwords with columns enabled are printed as 3 rows
\* of 5 columns, the last row possibly short.
C10_TwelveInFiveColumns ==
  (pc = "done" /\ config.columns /\ Len(passwords) = 12) =>
    /\ Len(stdout) = 3
    /\ \A r \in 1..2 : entries_in_line(stdout[r]) = COLUMNS
    /\ entries_in_line(stdout[3]) <= COLUMNS

\* width of column c (0-based): the longest of the passwords c*rows .. c*rows + rows - 1
column_width(pws, rows, c) ==
  max_of({Len(pws[i + 1]) : i \in {x \in 0..(Len(pws) - 1) : x \div rows = c}})

\* the text of row r: the passwords r, r + rows, r + 2*rows, ... each padded
\* with spaces to its column's width, separated by one space
RECURSIVE grid_line(_, _, _, _)
grid_line(pws, rows, r, c) ==
  IF c * rows + r >= Len(pws) THEN <<>>
  ELSE LET item == pws[c * rows + r + 1]
           w == column_width(pws, rows, c)
       IN (IF c > 0 THEN <<32>> ELSE <<>>)
          \o item \o [k \in 1..(w - Len(item)) |-> 32]
          \o grid_line(pws, rows, r, c + 1)

\* C10 (amended): with columns enabled and n > 5 passwords, the output has
\* ceil(n/5) rows filled column-major (password i in row i mod rows, column
\* i div rows), so at most 5 columns, each column left-justified to its
\* longest entry; 12 passwords give 3 rows of 4 columns.
C10_ColumnMajorGrid ==
  (pc = "done" /\ config.columns /\ Len(passwords) > COLUMNS) =>
    LET n == Len(passwords)
        rows == (n + COLUMNS - 1) \div COLUMNS
    IN /\ Len(stdout) = rows
       /\ \A r \in 0..(rows - 1) :
            /\ stdout[r + 1] = grid_line(passwords, rows, r, 0)
            /\ entries_in_line(stdout[r + 1]) <= COLUMNS
       /\ n = 12 => (rows = 3 /\ \A r \in 1..3 : entries_in_line(stdout[r]) = 4)

\* 12 passwords of different lengths were printed in columns
C10_Witness ==
  /\ pc = "done"
  /\ config.columns
  /\ Len(passwords) = 12
  /\ Len(stdout) = 3
  /\ \E i, j \in 1..3 : Len(passwords[i]) # Len(passwords[j])

\* ----------------------------------------------------------------------- C11
\* C11 (as claimed): every password generate_passwords collects, in secure
\* mode as in pattern mode, is the value apply_requirements returned: a push
\* onto passwords only happens on the return of apply_requirements (stated
\* for the passwords a generator filled from reads, the empty-alphabet
\* fallback set aside).
C11_GenerationThenEnforcement ==
  [][(Len(passwords') > Len(passwords) /\ pc # "secure_entry") => pc = "req_return"]_vars

\* ----------------------------------------------------------------------- C12
\* draws the pattern loop can still make: RetryCeiling + 1 for every position
\* not yet started, RetryCeiling - attempts + 1 for the current one
draws_left ==
  (config.pw_length - Len(password)) * (RetryCeiling + 1) - attempts

\* C12: in the pattern loop at most RetryCeiling rejected candidates of a
\* position are discarded; the candidate drawn after them is pushed whether
\* rejected or not; every non-failing draw either fills the position or
\* counts one more rejection, so the number of draws still possible stays
\* positive and strictly decreases until the password is filled.
C12_RejectionLoopBounded ==
  /\ [](pc = "mem_loop" => (attempts <= RetryCeiling /\ draws_left > 0))
  /\ [][(pc = "mem_loop" /\ pc' # "failed") =>
          /\ \/ (Len(password') = Len(password) + 1 /\ attempts' = 0)
             \/ (password' = password /\ attempts' = attempts + 1)
          /\ attempts = RetryCeiling => Len(password') = Len(password) + 1
          /\ pc' = "mem_loop" => draws_left' < draws_left
          /\ pc' # "mem_loop" => (pc' = "req_upper" /\ Len(password') = config.pw_length)
       ]_vars

\* the whole lowercase consonant sub-alphabet is excluded and uppercase
\* forbidden: every consonant position was filled at the ceiling
C12_Witness ==
  /\ pc = "req_upper"
  /\ config.no_capitalize
  /\ config.remove_chars = Some(CONSONANTS_LOWER)
  /\ Len(password) = MaxLen
  /\ forced = {i \in 0..(MaxLen - 1) : i % 2 = 0}

\* ----------------------------------------------------------------------- C13
EnforcePcs ==
  {"req_upper", "upper_idx", "upper_pos", "req_digit", "digit_idx", "digit_pos",
   "req_symbol", "symbol_idx", "symbol_pos"}

\* C13: every byte apply_requirements writes into the password is outside
\* remove_chars, and in the uppercase and digit steps outside AMBIGUOUS when
\* ambiguous is set; only the position-writing steps change the password, by
\* one byte at most; a step whose filtered class alphabet is empty goes
\* straight to the next check, with no read and the password unchanged.
C13_EnforcementKeepsExclusions ==
  [][(pc \in EnforcePcs /\ pc' # "failed") =>
       /\ Len(password') = Len(password)
       /\ \A j \in 1..Len(password) :
            password'[j] # password[j] =>
              /\ pc \in {"upper_pos", "digit_pos", "symbol_pos"}
              /\ ~(config.remove_chars.some
                     /\ contains(config.remove_chars.chars, password'[j]))
              /\ (config.ambiguous /\ pc \in {"upper_pos", "digit_pos"})
                   => ~contains(AMBIGUOUS, password'[j])
              /\ \A k \in 1..Len(password) : k # j => password'[k] = password[k]
       /\ (pc = "req_upper" /\ uppercase_filtered(config) = <<>>)
            => (pc' = "req_digit" /\ password' = password)
       /\ (pc = "req_digit" /\ numerals_filtered(config) = <<>>)
            => (pc' = "req_symbol" /\ password' = password)
       /\ (pc = "req_symbol" /\ symbols_filtered(config) = <<>>)
            => (pc' = "req_return" /\ password' = password)
    ]_vars

\* uppercase letters and digits are all excluded: both steps were skipped on
\* a password lacking both classes, then the symbol step wrote a symbol
C13_Witness ==
  /\ pc = "req_return"
  /\ config.remove_chars = Some(UPPERCASE \o NUMERALS)
  /\ ~config.no_capitalize /\ ~config.no_numerals /\ config.symbols
  /\ ~has_uppercase(password)
  /\ ~has_numeral(password)
  /\ has_symbol(password)

====
